---- MODULE Spec2Model ----
(***************************************************************************)
(* A model of the bitmatrix crate (src/src/lib.rs): a BitMatrix is a       *)
(* bit-packed buffer `storage` of height * width bits with the two         *)
(* dimensions.  Row views are windows [begin, end) into `storage`; every   *)
(* index computation is done in machine words (usize), and the slicing     *)
(* layer of the bit buffer does the bounds checks.                         *)
(***************************************************************************)
EXTENDS Integers, Sequences, FiniteSets, TLC

\* ------------------------------------------------------------------ bounds
\* Width in bits of a machine word (usize); 64 on the usual targets.
WordBits == 3
\* Largest height, width and number of bits a matrix is constructed with.
MaxH == 3
MaxW == 3
MaxCells == 6

Modulus == 2 ^ WordBits
\* Every value of a usize.
Word == 0 .. (Modulus - 1)
\* Column indices tried: every column of the widest matrix and one past it.
Cols == 0 .. MaxW
\* Positions tried on the bit iterator: every bit of the largest matrix and one past.
Positions == 0 .. MaxCells
\* Positions tried on the row iterator.
RowPositions == 0 .. MaxH

VARIABLES
  storage,          \* BitMatrix.storage: the bits, row after row (1-based here)
  height,           \* BitMatrix.height
  width,            \* BitMatrix.width
  overflow_checks,  \* build profile: TRUE panics on usize overflow (debug),
                    \* FALSE wraps modulo 2^WordBits (release)
  h0, w0,           \* the arguments given to new()
  last,             \* the call whose result the caller holds: [op, i, j, v, ok]
                    \* (ok = FALSE is a panic), or NoCall between two calls
  ret               \* what that call returned (<<>> when nothing or a panic)

vars == <<storage, height, width, overflow_checks, h0, w0, last, ret>>

\* ------------------------------------------------------- machine arithmetic
Done(x) == [ok |-> TRUE, val |-> x]
Fail(x) == [ok |-> FALSE, val |-> x]

\* usize `a * b`: panics under overflow checks, wraps without them.
usize_mul(a, b) ==
  IF a * b < Modulus THEN Done(a * b)
  ELSE IF overflow_checks THEN Fail(0) ELSE Done((a * b) % Modulus)

\* usize `a + b`.
usize_add(a, b) ==
  IF a + b < Modulus THEN Done(a + b)
  ELSE IF overflow_checks THEN Fail(0) ELSE Done((a + b) % Modulus)

\* ------------------------------------------------------- the bit buffer
NoView == [begin |-> 0, end |-> 0]
ViewLen(v) == v.end - v.begin

\* storage[begin .. end]: the slicing layer rejects a span that is reversed
\* or runs past the buffer.
slice_range(begin, end) ==
  IF begin > end \/ end > Len(storage) THEN Fail(NoView)
  ELSE Done([begin |-> begin, end |-> end])

\* row[j] on a view: the bit, or a panic past the view's length.
bitslice_index(v, j) ==
  IF j >= ViewLen(v) THEN Fail(FALSE) ELSE Done(storage[v.begin + j + 1])

\* row.set(j, value) on a mutable view: the buffer after the write.
bitslice_set(v, j, value) ==
  IF j >= ViewLen(v) THEN Fail(storage)
  ELSE Done([storage EXCEPT ![v.begin + j + 1] = value])

\* *row.get_mut(j).unwrap() = value: get_mut gives None past the length.
bitslice_get_mut(v, j, value) ==
  IF j >= ViewLen(v) THEN Fail(storage)
  ELSE Done([storage EXCEPT ![v.begin + j + 1] = value])

\* storage.chunks_exact(size): Len div size windows of size bits each; a
\* chunk size of 0 is rejected.
chunks_exact(size) ==
  IF size = 0 THEN Fail(<<>>)
  ELSE Done([k \in 1 .. (Len(storage) \div size) |->
               [begin |-> (k - 1) * size, end |-> k * size]])

\* The bits a view covers, in order.
ViewBits(v) == [c \in 1 .. ViewLen(v) |-> storage[v.begin + c]]

\* ------------------------------------------------------- BitMatrix
\* new with the two dimensions stored the wrong way round.
new_swapped(h, w) ==
  LET size == h * w IN
  [storage |-> [k \in 1 .. size |-> FALSE], height |-> w, width |-> h]

\* BitMatrix::new: height * width bits, all false.
new(h, w) ==
  LET size == h * w IN
  [storage |-> [k \in 1 .. size |-> FALSE], height |-> h, width |-> w]

\* row_ix with the row stride taken from the wrong dimension.
row_ix_by_height(i) == usize_mul(i, height)

\* BitMatrix::row_ix: the offset of the first bit of row i.
row_ix(i) == usize_mul(i, width)

\* Index<usize>: the view of row `index`.
index(ix) ==
  LET begin == row_ix(ix) IN
  IF ~begin.ok THEN Fail(NoView) ELSE
  LET next == usize_add(ix, 1) IN
  IF ~next.ok THEN Fail(NoView) ELSE
  LET end == row_ix(next.val) IN
  IF ~end.ok THEN Fail(NoView) ELSE
  slice_range(begin.val, end.val)

\* IndexMut<usize>: the mutable view of row `index`.
index_mut(ix) ==
  LET begin == row_ix(ix) IN
  IF ~begin.ok THEN Fail(NoView) ELSE
  LET next == usize_add(ix, 1) IN
  IF ~next.ok THEN Fail(NoView) ELSE
  LET end == row_ix(next.val) IN
  IF ~end.ok THEN Fail(NoView) ELSE
  slice_range(begin.val, end.val)

\* The pair index computed on the whole buffer: bit row_ix(i) + j, checked
\* against the end of the buffer only.
index_pair_flat(i, j) ==
  LET begin == row_ix(i) IN
  IF ~begin.ok THEN Fail(FALSE)
  ELSE bitslice_index([begin |-> begin.val, end |-> Len(storage)], j)

\* Index<(usize, usize)>: &self[i][j].
index_pair(i, j) ==
  LET row == index(i) IN
  IF ~row.ok THEN Fail(FALSE) ELSE bitslice_index(row.val, j)

\* BitMatrix::set: self[i].set(j, value); the buffer afterwards.
set(i, j, value) ==
  LET row == index_mut(i) IN
  IF ~row.ok THEN Fail(storage) ELSE bitslice_set(row.val, j, value)

\* set_all that rebuilds the buffer with the length of one row.
set_all_one_row(value) == [k \in 1 .. width |-> value]

\* set_all that leaves the last bit of the buffer as it was.
set_all_skip_tail(value) ==
  [k \in 1 .. Len(storage) |-> IF k = Len(storage) THEN storage[k] ELSE value]

\* BitMatrix::set_all: the buffer afterwards.
set_all(value) == [k \in 1 .. Len(storage) |-> value]

\* iter from the last bit to the first.
iter_reversed == [k \in 1 .. Len(storage) |-> storage[Len(storage) - k + 1]]

\* BitMatrix::iter: the bits of the buffer from the first to the last.
iter == [k \in 1 .. Len(storage) |-> storage[k]]

\* iter_mut from the last bit to the first.
iter_mut_reversed == [k \in 1 .. Len(storage) |-> Len(storage) - k]

\* BitMatrix::iter_mut: one handle per bit, the k-th on the bit at offset k.
iter_mut == [k \in 1 .. Len(storage) |-> k - 1]

\* BitMatrix::rows / rows_mut.
rows == chunks_exact(width)
rows_mut == chunks_exact(width)

\* Debug::fmt: one line of 0/1 digits per row of rows().
fmt ==
  LET rs == rows IN
  IF ~rs.ok THEN Fail(<<>>)
  ELSE Done([k \in 1 .. Len(rs.val) |->
               [c \in 1 .. ViewLen(rs.val[k]) |->
                  IF storage[rs.val[k].begin + c] THEN 1 ELSE 0]])

\* ------------------------------------------------------- the state machine
Call(op, i, j, v, ok) == [op |-> op, i |-> i, j |-> j, v |-> v, ok |-> ok]
NoCall == Call("none", 0, 0, FALSE, TRUE)
\* The matrix is borrowed by one call (and by what it returned) at a time.
Idle == last = NoCall

\* A matrix is constructed with dimensions whose product fits a machine word
\* (the precondition of new).
InitWith(checks) ==
  \E h \in 0 .. MaxH, w \in 0 .. MaxW :
    /\ h * w <= MaxCells
    /\ h * w < Modulus
    /\ storage = new(h, w).storage
    /\ height = new(h, w).height
    /\ width = new(h, w).width
    /\ overflow_checks \in checks
    /\ h0 = h
    /\ w0 = w
    /\ last = Call("new", h, w, FALSE, TRUE)
    /\ ret = <<>>

Init == InitWith(BOOLEAN)

Shape == <<height, width, overflow_checks, h0, w0>>

\* let row = &matrix[i];
Index(i) ==
  LET r == index(i) IN
  /\ Idle
  /\ last' = Call("index", i, 0, FALSE, r.ok)
  /\ ret' = IF r.ok THEN r.val ELSE <<>>
  /\ UNCHANGED <<storage, Shape>>

\* let row = &mut matrix[i];
IndexMut(i) ==
  LET r == index_mut(i) IN
  /\ Idle
  /\ last' = Call("index_mut", i, 0, FALSE, r.ok)
  /\ ret' = IF r.ok THEN r.val ELSE <<>>
  /\ UNCHANGED <<storage, Shape>>

\* let b = matrix[(i, j)];
IndexPair(i, j) ==
  LET r == index_pair(i, j) IN
  /\ Idle
  /\ last' = Call("index_pair", i, j, FALSE, r.ok)
  /\ ret' = IF r.ok THEN r.val ELSE <<>>
  /\ UNCHANGED <<storage, Shape>>

\* matrix.set((i, j), v);
Set(i, j, v) ==
  LET r == set(i, j, v) IN
  /\ Idle
  /\ storage' = r.val
  /\ last' = Call("set", i, j, v, r.ok)
  /\ ret' = <<>>
  /\ UNCHANGED Shape

\* *matrix[i].get_mut(j).unwrap() = v;
GetMut(i, j, v) ==
  LET row == index_mut(i)
      r == IF ~row.ok THEN Fail(storage) ELSE bitslice_get_mut(row.val, j, v)
  IN
  /\ Idle
  /\ storage' = r.val
  /\ last' = Call("get_mut", i, j, v, r.ok)
  /\ ret' = <<>>
  /\ UNCHANGED Shape

\* matrix.set_all(v);
SetAll(v) ==
  /\ Idle
  /\ storage' = set_all(v)
  /\ last' = Call("set_all", 0, 0, v, TRUE)
  /\ ret' = <<>>
  /\ UNCHANGED Shape

\* matrix.iter().collect()
Iter ==
  /\ Idle
  /\ last' = Call("iter", 0, 0, FALSE, TRUE)
  /\ ret' = iter
  /\ UNCHANGED <<storage, Shape>>

\* matrix.iter_mut().nth(k): the k-th handle is assigned v; past the last
\* handle the iterator is exhausted (ok = FALSE) and nothing is written.
IterMut(k, v) ==
  LET handles == iter_mut IN
  /\ Idle
  /\ storage' = IF k < Len(handles)
                  THEN [storage EXCEPT ![handles[k + 1] + 1] = v]
                  ELSE storage
  /\ last' = Call("iter_mut", k, 0, v, k < Len(handles))
  /\ ret' = <<>>
  /\ UNCHANGED Shape

\* matrix.rows().collect()
Rows ==
  LET r == rows IN
  /\ Idle
  /\ last' = Call("rows", 0, 0, FALSE, r.ok)
  /\ ret' = r.val
  /\ UNCHANGED <<storage, Shape>>

\* matrix.rows_mut().nth(k): bit j of the k-th view is set to v; past the
\* last view nothing is written.
RowsMut(k, j, v) ==
  LET rs == rows_mut
      r == IF ~rs.ok THEN Fail(storage)
           ELSE IF k >= Len(rs.val) THEN Fail(storage)
           ELSE bitslice_set(rs.val[k + 1], j, v)
  IN
  /\ Idle
  /\ storage' = r.val
  /\ last' = Call("rows_mut", k, j, v, r.ok)
  /\ ret' = <<>>
  /\ UNCHANGED Shape

\* format!("{:?}", matrix)
Fmt ==
  LET r == fmt IN
  /\ Idle
  /\ last' = Call("fmt", 0, 0, FALSE, r.ok)
  /\ ret' = r.val
  /\ UNCHANGED <<storage, Shape>>

\* The result of the last call (a value, a view, an iterator) goes out of
\* scope, which ends its borrow of the matrix.
Drop ==
  /\ ~Idle
  /\ last' = NoCall
  /\ ret' = <<>>
  /\ UNCHANGED <<storage, Shape>>

Next ==
  \/ \E i \in Word : Index(i)
  \/ \E i \in Word : IndexMut(i)
  \/ \E i \in Word, j \in Cols : IndexPair(i, j)
  \/ \E i \in Word, j \in Cols, v \in BOOLEAN : Set(i, j, v)
  \/ \E i \in Word, j \in Cols, v \in BOOLEAN : GetMut(i, j, v)
  \/ \E v \in BOOLEAN : SetAll(v)
  \/ Iter
  \/ \E k \in Positions, v \in BOOLEAN : IterMut(k, v)
  \/ Rows
  \/ \E k \in RowPositions, j \in Cols, v \in BOOLEAN : RowsMut(k, j, v)
  \/ Fmt
  \/ Drop

Spec == Init /\ [][Next]_vars

\* The same program built with overflow checks (a debug build).
InitDebug == InitWith({TRUE})
SpecDebug == InitDebug /\ [][Next]_vars

\* ------------------------------------------------------- properties
\* The coordinates of the matrix's cells.
Cells == (0 .. (height - 1)) \X (0 .. (width - 1))
\* What get(i, j), the pair index matrix[(i, j)], gives in the current state.
get(i, j) == index_pair(i, j)
\* The view of row k as the layout defines it: bits k*width .. (k+1)*width - 1.
RowWindow(k) == [begin |-> k * width, end |-> (k + 1) * width]
RowCalls == {"index", "index_mut", "index_pair", "set"}

\* C1: after set((i, j), v) at an in-range coordinate, get(i, j) returns v
\* and every other cell reads what it read before the call.
C1_SetGetRoundTrip ==
  [][\A i \in Word, j \in Cols :
       (last'.op = "set" /\ last'.i = i /\ last'.j = j /\ i < height /\ j < width) =>
         /\ last'.ok
         /\ get(i, j)' = Done(last'.v)
         /\ \A c \in Cells : c # <<i, j>> => get(c[1], c[2])' = get(c[1], c[2])]_vars

\* A set of FALSE succeeded in a matrix of several rows that holds a TRUE
\* cell elsewhere.
C1_Witness ==
  /\ last.op = "set" /\ last.ok /\ ~last.v
  /\ last.i = 1 /\ last.j = 0
  /\ height = 2 /\ width = 3
  /\ get(0, 2) = Done(TRUE) /\ get(1, 1) = Done(TRUE)

\* C2: a row index i >= height fails in row access, mutable row access,
\* pair-indexed read and set, whatever the dimensions (zero included), and
\* a row index i < height yields the view of row i.
C2_RowIndexOutOfBounds ==
  /\ (last.op \in RowCalls /\ last.i >= height) => ~last.ok
  /\ (last.op \in {"index", "index_mut"} /\ last.i < height) =>
       (last.ok /\ ret = RowWindow(last.i))

\* C3: in an in-range row, a pair-indexed read, a set and a mutable bit
\* handle fail at every column j >= width and succeed at every j < width.
C3_ColumnOutOfBounds ==
  (last.op \in {"index_pair", "set", "get_mut"} /\ last.i < height) =>
    /\ last.ok <=> last.j < width
    /\ (last.op = "index_pair" /\ last.ok) => ret = storage[last.i * width + last.j + 1]

\* An access at column j == width of a row that has a row after it failed,
\* with the first cell of the next row set.
C3_Witness ==
  /\ last.op \in {"index_pair", "set", "get_mut"}
  /\ ~last.ok
  /\ last.i + 1 < height /\ last.j = width /\ width > 0
  /\ get(last.i + 1, 0) = Done(TRUE)

\* C4: new(h, w) gives a matrix of height h and width w with exactly h * w
\* addressable bits, every cell reading false.
C4_NewIsAllFalse ==
  last.op = "new" =>
    /\ height = last.i /\ width = last.j
    /\ Len(storage) = last.i * last.j
    /\ Len(iter) = last.i * last.j
    /\ \A i \in 0 .. (last.i - 1), j \in 0 .. (last.j - 1) : get(i, j) = Done(FALSE)
    /\ \A i \in 0 .. (last.i - 1) : ~get(i, last.j).ok

C4_Witness == last.op = "new" /\ height = 2 /\ width = 3 /\ Len(storage) = 6

\* C5: in every reachable state, after calls that fail included, the
\* storage length is height * width and the dimensions are those given to new.
C5_ShapeInvariant ==
  /\ Len(storage) = height * width
  /\ height = h0
  /\ width = w0

\* A call failed after the matrix had been written to.
C5_Witness ==
  /\ last.op \in {"set", "get_mut", "rows_mut"} /\ ~last.ok
  /\ height = 3 /\ width = 2
  /\ \E k \in 1 .. Len(storage) : storage[k]
  /\ \E k \in 1 .. Len(storage) : ~storage[k]

\* C6: iter() yields exactly height * width values, the k-th being
\* get(k div width, k mod width).
C6_IterRowMajor ==
  last.op = "iter" =>
    /\ Len(ret) = height * width
    /\ \A k \in 0 .. (height * width - 1) :
         Done(ret[k + 1]) = get(k \div width, k % width)

\* The example of the documentation: new(2, 2), set((0,1)), set((1,0)).
C6_Witness ==
  /\ last.op = "iter"
  /\ height = 2 /\ width = 2
  /\ ret = <<FALSE, TRUE, TRUE, FALSE>>

\* C7: rows() does not fail, whatever the dimensions (zero included), and
\* yields exactly height views, the k-th being the view of row k.
C7_RowsAreTheRows ==
  last.op = "rows" =>
    /\ last.ok
    /\ Len(ret) = height
    /\ \A k \in 0 .. (height - 1) : ret[k + 1] = RowWindow(k)

\* C8: iter_mut() yields exactly height * width handles, and assigning v to
\* the k-th makes get(k div width, k mod width) = v and changes no other cell.
C8_IterMutWrites ==
  [][\A k \in Positions :
       (last'.op = "iter_mut" /\ last'.i = k) =>
         /\ last'.ok <=> k < height * width
         /\ k < height * width =>
              /\ get(k \div width, k % width)' = Done(last'.v)
              /\ \A c \in Cells : c # <<k \div width, k % width>> =>
                   get(c[1], c[2])' = get(c[1], c[2])
         /\ k >= height * width => storage' = storage]_vars

\* The first handle of a 2 x 2 matrix was assigned TRUE.
C8_Witness ==
  /\ last.op = "iter_mut" /\ last.ok /\ last.i = 0 /\ last.v
  /\ height = 2 /\ width = 2
  /\ storage = <<TRUE, FALSE, FALSE, FALSE>>

\* C9: set_all(v) never fails, and afterwards every cell reads v with the
\* dimensions unchanged.
C9_SetAllSaturates ==
  last.op = "set_all" =>
    /\ last.ok
    /\ \A c \in Cells : get(c[1], c[2]) = Done(last.v)
    /\ height = h0 /\ width = w0
    /\ Len(storage) = h0 * w0

C9_Witness ==
  /\ last.op = "set_all" /\ last.v
  /\ height = 2 /\ width = 3
  /\ Len(storage) = 6

\* C10: with wrapping machine-word arithmetic, a row index i >= height
\* never wraps around to a row of the matrix: row access, pair-indexed read
\* and set at row i fail and return nothing.  (Stated for the matrices of
\* positive width; a zero-width matrix is the case of C2.)
C10_NoWraparound ==
  (~overflow_checks /\ width > 0 /\ last.op \in RowCalls /\ last.i >= height) =>
    (~last.ok /\ ret = <<>>)

====
